---- MODULE Spec2Model ----
(***************************************************************************)
(* Model of src/Python/syconUI.py: the SyconConsciousness engine (session  *)
(* state, pending-input queue, pruning, the streaming quote parser inside  *)
(* consciousness_loop, the time keeper) and the SyconUI control surface    *)
(* (toggle_sycon, send_message, on_close).                                 *)
(*                                                                         *)
(* Text is a sequence of one-character strings.  An injected notice (the   *)
(* f-strings of inject_user_input, time_keeper_loop, start_new_session) is *)
(* a text of one token that names its producer and its serial number.      *)
(***************************************************************************)
EXTENDS Integers, Sequences, FiniteSets, TLC

VARIABLES
    running,               \* self.running
    stop_event,            \* self.stop_event.is_set()
    context_buffer,        \* self.context_buffer
    pending_user_input,    \* self.pending_user_input
    full_context,          \* self.full_context
    session_chat_log,      \* self.session_chat_log
    pc,                    \* position of the consciousness_loop thread
    stream,                \* fragments of the current stream not yet received
    current_thought_chunk, \* local of consciousness_loop
    capture_say_message,   \* local of consciousness_loop
    say_message_buffer,    \* local of consciousness_loop
    cut_length,            \* local of prune_context
    timer_pc,              \* position of the time_keeper_loop thread
    ui_pc,                 \* position of the Tk main thread
    memory_files,          \* number of records written by save_memory
    events,                \* observer: callbacks made during the current request
    gen_text,              \* observer: all text the current stream was issued with
    last_end,              \* observer: how the last request ended
    enq_log,               \* observer: every notice appended to the queue, in order
    n_sends,               \* observer: number of send_message calls
    n_ticks,               \* observer: number of time_keeper injections
    n_requests             \* observer: number of ollama.chat calls

vars == << running, stop_event, context_buffer, pending_user_input,
           full_context, session_chat_log, pc, stream,
           current_thought_chunk, capture_say_message, say_message_buffer,
           cut_length, timer_pc, ui_pc, memory_files, events, gen_text,
           last_end, enq_log, n_sends, n_ticks, n_requests >>

---------------------------------------------------------------------------
(* Bounds of the exploration *)

MaxLen == 5          \* longest generated text of the parser specification
MaxNotices == 2      \* notices explored (send_message calls plus time keeper injections)
MaxRequests == 1     \* streaming requests explored
MaxBuf == 20         \* longest buffer of the pruning specification

(* Program constants, scaled to the bounds above *)

MAX_CONTEXT_CHARS == 2   \* 12000 in the source
ExcerptLen == 2          \* chunk_to_summarize[:50] in the source

Q == "\""
SP == " "
NL == "\n"

Alphabet == {"a", SP, Q}

---------------------------------------------------------------------------
(* str helpers *)

IsSpace(c) == c = SP \/ c = NL

\* str.strip()
Strip(s) ==
    IF \A i \in 1..Len(s) : IsSpace(s[i]) THEN << >>
    ELSE LET lo == CHOOSE i \in 1..Len(s) :
                       ~IsSpace(s[i]) /\ \A j \in 1..(i-1) : IsSpace(s[j])
             hi == CHOOSE i \in 1..Len(s) :
                       ~IsSpace(s[i]) /\ \A j \in (i+1)..Len(s) : IsSpace(s[j])
         IN  SubSeq(s, lo, hi)

\* str.strip('"')
StripQuotes(s) ==
    IF \A i \in 1..Len(s) : s[i] = Q THEN << >>
    ELSE LET lo == CHOOSE i \in 1..Len(s) :
                       s[i] # Q /\ \A j \in 1..(i-1) : s[j] = Q
             hi == CHOOSE i \in 1..Len(s) :
                       s[i] # Q /\ \A j \in (i+1)..Len(s) : s[j] = Q
         IN  SubSeq(s, lo, hi)

\* '"' in s
HasQuote(s) == \E i \in 1..Len(s) : s[i] = Q

\* s.endswith('"')
EndsWithQuote(s) == Len(s) > 0 /\ s[Len(s)] = Q

\* s.split('"', 1) when s holds a quote
SplitFirstQuote(s) ==
    LET k == CHOOSE i \in 1..Len(s) : s[i] = Q /\ \A j \in 1..(i-1) : s[j] # Q
    IN  << SubSeq(s, 1, k-1), SubSeq(s, k+1, Len(s)) >>

\* s[:n]
Take(s, n) == SubSeq(s, 1, IF n < Len(s) THEN n ELSE Len(s))

\* s[n:]
Drop(s, n) == SubSeq(s, (IF n < Len(s) THEN n ELSE Len(s)) + 1, Len(s))

\* list.pop(0) in place of list.pop()
Pop_First(l) == SubSeq(l, 2, Len(l))

\* list.pop() on a non-empty list, the popped element discarded
Pop(l) == SubSeq(l, 1, Len(l) - 1)

RECURSIVE Concat(_)
Concat(ss) == IF ss = << >> THEN << >> ELSE Head(ss) \o Concat(Tail(ss))

---------------------------------------------------------------------------
(* Messages of full_context and observer events *)

SystemMsg == [role |-> "system", kind |-> "prompt", content |-> <<"SYSTEM">>]
InputMsg(inp) == [role |-> "user", kind |-> "input", content |-> inp]
TriggerMsg == [role |-> "user", kind |-> "trigger", content |-> <<"TRIGGER">>]
SpokenMsg(m) == [role |-> "assistant", kind |-> "said", content |-> m]
SpokenIncompleteMsg(m) ==
    [role |-> "assistant", kind |-> "said_incomplete", content |-> m]
MonologueMsg(t) == [role |-> "assistant", kind |-> "monologue", content |-> t]

ThoughtEvent(t) == [kind |-> "thought", text |-> t]
SpeechEvent(t) == [kind |-> "speech", text |-> t]
IncompleteEvent(t) == [kind |-> "incomplete", text |-> t]
ErrorEvent == [kind |-> "error", text |-> << >>]

---------------------------------------------------------------------------
(* The body of `for chunk in stream` after the cancellation test.          *)
(* p holds the three locals; the result holds their new values, the        *)
(* callbacks made (emitted) and the messages appended to full_context.     *)

ParserStep(p, word) ==
    LET ctc == p.current_thought_chunk \o word IN
    IF ~p.capture_say_message /\ HasQuote(ctc)
    THEN LET parts == SplitFirstQuote(ctc) IN
         [ current_thought_chunk |-> << >>,
           capture_say_message   |-> TRUE,
           say_message_buffer    |-> p.say_message_buffer \o parts[2],
           emitted               |-> << ThoughtEvent(parts[1]) >>,
           appended              |-> << >> ]
    ELSE IF p.capture_say_message
    THEN LET smb == p.say_message_buffer \o word IN
         IF EndsWithQuote(Strip(smb))
         THEN LET final_msg == Strip(Pop(Strip(smb))) IN
              [ current_thought_chunk |-> ctc,
                capture_say_message   |-> FALSE,
                say_message_buffer    |-> << >>,
                emitted               |-> << SpeechEvent(final_msg) >>,
                appended              |-> << SpokenMsg(final_msg) >> ]
         ELSE [ current_thought_chunk |-> ctc,
                capture_say_message   |-> TRUE,
                say_message_buffer    |-> smb,
                emitted               |-> << >>,
                appended              |-> << >> ]
    ELSE [ current_thought_chunk |-> ctc,
           capture_say_message   |-> FALSE,
           say_message_buffer    |-> p.say_message_buffer,
           emitted               |-> IF Strip(word) # << >>
                                    THEN << ThoughtEvent(word) >> ELSE << >>,
           appended              |-> << >> ]

\* the safety net without the strip() of the buffered text
SafetyNet_NoStrip(capture, smb) ==
    IF capture /\ Strip(smb) # << >> THEN StripQuotes(smb) ELSE << >>

\* "5. Safety Net for unfinished messages": the text of the incomplete
\* speech, or << >> when none is delivered
SafetyNet(capture, smb) ==
    IF capture /\ Strip(smb) # << >> THEN StripQuotes(Strip(smb)) ELSE << >>

\* the locals as set before the for loop
StartParser == [ current_thought_chunk |-> << >>,
                 capture_say_message   |-> FALSE,
                 say_message_buffer    |-> << >> ]

\* the callbacks of a whole request that receives the fragments fs and ends
\* normally: the for loop, the safety net and the final newline
RECURSIVE ParseAll(_, _)
ParseAll(p, fs) ==
    IF fs = << >>
    THEN LET m == SafetyNet(p.capture_say_message, p.say_message_buffer) IN
         (IF m # << >> THEN << IncompleteEvent(m) >> ELSE << >>)
             \o << ThoughtEvent(<<NL>>) >>
    ELSE LET r == ParserStep(p, Head(fs)) IN
         r.emitted \o ParseAll([ current_thought_chunk |-> r.current_thought_chunk,
                                 capture_say_message   |-> r.capture_say_message,
                                 say_message_buffer    |-> r.say_message_buffer ],
                               Tail(fs))

---------------------------------------------------------------------------
(* Every way of delivering a text as non-empty fragments *)

RECURSIVE Fragmentations(_)
Fragmentations(t) ==
    IF t = << >> THEN { << >> }
    ELSE UNION { { << SubSeq(t, 1, k) >> \o r :
                     r \in Fragmentations(SubSeq(t, k+1, Len(t))) } :
                 k \in 1..Len(t) }

TextsUpTo(n) == UNION { [1..k -> Alphabet] : k \in 0..n }

---------------------------------------------------------------------------
(* Notices and notes *)

\* the f-strings of inject_user_input ("u"), time_keeper_loop ("t") and
\* start_new_session ("k"): one token holding producer and serial number
Notice(src, n) == << src \o ToString(n) >>

initial_kickoff == Notice("k", 0)

\* the results ollama.generate(...)['response'].strip() can have
Summaries == { <<"s">> }

\* get_llm_summary when ollama.generate raises
FailedSummary(chunk_to_summarize) ==
    <<"[FAILED:">> \o Take(chunk_to_summarize, ExcerptLen) \o <<"...]">>

\* pruned_note of prune_context
PrunedNote(summary) == <<"[NOTE:">> \o summary \o <<"]">>

\* a cut of 25% in place of 20%
CutLength_Quarter(buf) == (Len(buf) * 25) \div 100

\* cut_length of prune_context: int(len(self.context_buffer) * 0.20)
CutLength(buf) == (Len(buf) * 20) \div 100

\* self.context_buffer after prune_context got the summary
PrunedBuffer(buf, cut, summary) == PrunedNote(summary) \o Drop(buf, cut)

---------------------------------------------------------------------------
(* SyconConsciousness.__init__ and SyconUI.__init__ *)

Init ==
    /\ running = FALSE
    /\ stop_event = FALSE
    /\ context_buffer = << >>
    /\ pending_user_input = << >>
    /\ full_context = << >>
    /\ session_chat_log = << >>
    /\ pc = "top"
    /\ stream = << >>
    /\ current_thought_chunk = << >>
    /\ capture_say_message = FALSE
    /\ say_message_buffer = << >>
    /\ cut_length = 0
    /\ timer_pc = "while"
    /\ ui_pc = "idle"
    /\ memory_files = 0
    /\ events = << >>
    /\ gen_text = << >>
    /\ last_end = "none"
    /\ enq_log = << >>
    /\ n_sends = 0
    /\ n_ticks = 0
    /\ n_requests = 0

loop_locals == << stream, current_thought_chunk, capture_say_message,
                  say_message_buffer, cut_length >>
observers == << events, gen_text, last_end, enq_log, n_sends, n_ticks,
                n_requests >>
session == << context_buffer, pending_user_input, full_context,
             session_chat_log >>

\* root.destroy() ends mainloop and the process; the daemon threads end too
Alive == ui_pc # "closed"

---------------------------------------------------------------------------
(* The Tk main thread: toggle_sycon, send_message, on_close *)

\* toggle_sycon, "PAUSE logic"
Pause ==
    /\ Alive /\ ui_pc = "idle"
    /\ running
    /\ running' = FALSE
    /\ UNCHANGED << stop_event, session, pc, loop_locals, timer_pc, ui_pc,
                    memory_files, observers >>

\* toggle_sycon, clean start: start_new_session with the prompt file present
StartNewSession ==
    /\ Alive /\ ui_pc = "idle"
    /\ ~running
    /\ full_context = << >>
    /\ context_buffer' = << >>
    /\ full_context' = << SystemMsg >>
    /\ pending_user_input' = << >> \o initial_kickoff
    /\ enq_log' = enq_log \o initial_kickoff
    /\ running' = TRUE
    /\ UNCHANGED << stop_event, session_chat_log, pc, loop_locals, timer_pc,
                    ui_pc, memory_files, events, gen_text, last_end, n_sends,
                    n_ticks, n_requests >>

\* toggle_sycon, clean start: get_initial_prompt raises FileNotFoundError
StartNewSessionFails ==
    /\ Alive /\ ui_pc = "idle"
    /\ ~running
    /\ full_context = << >>
    /\ context_buffer' = << >>
    /\ pending_user_input' = << >>
    /\ UNCHANGED << running, stop_event, full_context, session_chat_log, pc,
                    loop_locals, timer_pc, ui_pc, memory_files, observers >>

\* toggle_sycon, "simple resume"
Resume ==
    /\ Alive /\ ui_pc = "idle"
    /\ ~running
    /\ full_context # << >>
    /\ running' = TRUE
    /\ UNCHANGED << stop_event, session, pc, loop_locals, timer_pc, ui_pc,
                    memory_files, observers >>

\* send_message with non-blank text -> inject_user_input
SendMessage ==
    /\ Alive /\ ui_pc = "idle"
    /\ n_sends + n_ticks < MaxNotices
    /\ n_sends' = n_sends + 1
    /\ pending_user_input' = pending_user_input \o Notice("u", n_sends + 1)
    /\ enq_log' = enq_log \o Notice("u", n_sends + 1)
    /\ UNCHANGED << running, stop_event, context_buffer, full_context,
                    session_chat_log, pc, loop_locals, timer_pc, ui_pc,
                    memory_files, events, gen_text, last_end, n_ticks,
                    n_requests >>

\* on_close with the call of save_memory left out
OnClose_NoSave ==
    /\ Alive /\ ui_pc = "idle"
    /\ stop_event' = TRUE
    /\ ui_pc' = "closed"
    /\ UNCHANGED << running, session, pc, loop_locals, timer_pc,
                    memory_files, observers >>

\* on_close: self.sycon.stop_event.set()
OnClose ==
    /\ Alive /\ ui_pc = "idle"
    /\ stop_event' = TRUE
    /\ ui_pc' = "saving"
    /\ UNCHANGED << running, session, pc, loop_locals, timer_pc,
                    memory_files, observers >>

\* on_close: self.sycon.save_memory(); self.root.destroy()
SaveMemory ==
    /\ ui_pc = "saving"
    /\ memory_files' = memory_files + 1
    /\ session_chat_log' = << >>
    /\ ui_pc' = "closed"
    /\ UNCHANGED << running, stop_event, context_buffer, pending_user_input,
                    full_context, pc, loop_locals, timer_pc, observers >>

---------------------------------------------------------------------------
(* The time_keeper_loop thread *)

\* while not self.stop_event.is_set(): time.sleep(60)
TimerWhile ==
    /\ Alive /\ timer_pc = "while"
    /\ timer_pc' = IF stop_event THEN "exit" ELSE "slept"
    /\ UNCHANGED << running, stop_event, session, pc, loop_locals, ui_pc,
                    memory_files, observers >>

\* if self.running:
TimerWake ==
    /\ Alive /\ timer_pc = "slept"
    /\ running => n_sends + n_ticks < MaxNotices
    /\ timer_pc' = IF running THEN "inject" ELSE "while"
    /\ UNCHANGED << running, stop_event, session, pc, loop_locals, ui_pc,
                    memory_files, observers >>

\* self.pending_user_input.append(injection)
TimerInject ==
    /\ Alive /\ timer_pc = "inject"
    /\ n_ticks' = n_ticks + 1
    /\ pending_user_input' = pending_user_input \o Notice("t", n_ticks + 1)
    /\ enq_log' = enq_log \o Notice("t", n_ticks + 1)
    /\ timer_pc' = "while"
    /\ UNCHANGED << running, stop_event, context_buffer, full_context,
                    session_chat_log, pc, loop_locals, ui_pc, memory_files,
                    events, gen_text, last_end, n_sends, n_requests >>

---------------------------------------------------------------------------
(* The consciousness_loop thread *)

\* while not self.stop_event.is_set(): if not self.running:
\*     time.sleep(0.1); continue
LoopTop ==
    /\ Alive /\ pc = "top"
    /\ pc' = IF stop_event THEN "exit"
             ELSE IF ~running THEN "top" ELSE "drain"
    /\ UNCHANGED << running, stop_event, session, loop_locals, timer_pc,
                    ui_pc, memory_files, observers >>

\* pop() in place of pop(0): the newest item is taken
QueuePop_Last(q) == [ item |-> << q[Len(q)] >>, rest |-> SubSeq(q, 1, Len(q) - 1) ]

\* self.pending_user_input.pop(0): the item taken and the list left
QueuePop(q) == [ item |-> << Head(q) >>, rest |-> Tail(q) ]

\* PHASE 1, one turn of `while self.pending_user_input`
DrainInput ==
    /\ Alive /\ pc = "drain"
    /\ pending_user_input # << >>
    /\ LET inp == QueuePop(pending_user_input).item IN
         /\ pending_user_input' = QueuePop(pending_user_input).rest
         /\ full_context' = Append(full_context, InputMsg(inp))
         /\ session_chat_log' = session_chat_log \o <<"[User said]">> \o inp
         /\ context_buffer' = context_buffer \o inp
    /\ UNCHANGED << running, stop_event, pc, loop_locals, timer_pc, ui_pc,
                    memory_files, observers >>

\* PHASE 1, `while self.pending_user_input` finds the list empty
DrainDone ==
    /\ Alive /\ pc = "drain"
    /\ pending_user_input = << >>
    /\ pc' = "prune"
    /\ UNCHANGED << running, stop_event, session, loop_locals, timer_pc,
                    ui_pc, memory_files, observers >>

\* the size test with >= in place of >
OverBudget_AtLeast(buf) == Len(buf) >= MAX_CONTEXT_CHARS

\* if len(self.context_buffer) > MAX_CONTEXT_CHARS
OverBudget(buf) == Len(buf) > MAX_CONTEXT_CHARS

\* prune_context with the buffer within the budget: nothing happens
PruneSkip ==
    /\ Alive /\ pc = "prune"
    /\ ~OverBudget(context_buffer)
    /\ pc' = "issue"
    /\ UNCHANGED << running, stop_event, session, loop_locals, timer_pc,
                    ui_pc, memory_files, observers >>

\* prune_context, up to the call of get_llm_summary
PruneStart ==
    /\ Alive /\ pc = "prune"
    /\ OverBudget(context_buffer)
    /\ cut_length' = CutLength(context_buffer)
    /\ pc' = "summary"
    /\ UNCHANGED << running, stop_event, session, stream,
                    current_thought_chunk, capture_say_message,
                    say_message_buffer, timer_pc, ui_pc, memory_files,
                    observers >>

\* prune_context, from the return of get_llm_summary (a summary, or the
\* placeholder when ollama.generate raised)
PruneFinish ==
    /\ Alive /\ pc = "summary"
    /\ \E summary \in Summaries
                      \cup { FailedSummary(Take(context_buffer, cut_length)) } :
         context_buffer' = PrunedBuffer(context_buffer, cut_length, summary)
    /\ pc' = "issue"
    /\ UNCHANGED << running, stop_event, pending_user_input, full_context,
                    session_chat_log, loop_locals, timer_pc, ui_pc,
                    memory_files, observers >>

\* the streams ollama.chat delivers in the full specification: a thought, a
\* quoted span fragment by fragment, an unclosed quote
Streams == { << <<"a">> >>, << <<Q>>, <<"a">>, <<Q>> >>, << <<Q, "a">> >> }

\* self.full_context.append(trigger); ollama.chat(...) returns a stream;
\* limit caps the number of requests of a run
Issue(limit) ==
    /\ Alive /\ pc = "issue"
    /\ n_requests < limit
    /\ n_requests' = n_requests + 1
    /\ full_context' = Append(full_context, TriggerMsg)
    /\ \E fs \in Streams :
         /\ stream' = fs
         /\ gen_text' = Concat(fs)
    /\ current_thought_chunk' = << >>
    /\ capture_say_message' = FALSE
    /\ say_message_buffer' = << >>
    /\ events' = << >>
    /\ last_end' = "none"
    /\ pc' = "stream"
    /\ UNCHANGED << running, stop_event, context_buffer, pending_user_input,
                    session_chat_log, cut_length, timer_pc, ui_pc,
                    memory_files, enq_log, n_sends, n_ticks >>

IssueRequest == Issue(MaxRequests)

\* self.full_context.append(trigger); ollama.chat(...) raises
IssueFails(limit) ==
    /\ Alive /\ pc = "issue"
    /\ n_requests < limit
    /\ n_requests' = n_requests + 1
    /\ full_context' = Append(full_context, TriggerMsg)
    /\ stream' = << >>
    /\ gen_text' = << >>
    /\ events' = << >>
    /\ last_end' = "none"
    /\ pc' = "except"
    /\ UNCHANGED << running, stop_event, context_buffer, pending_user_input,
                    session_chat_log, current_thought_chunk,
                    capture_say_message, say_message_buffer, cut_length,
                    timer_pc, ui_pc, memory_files, enq_log, n_sends, n_ticks >>

IssueRequestFails == IssueFails(MaxRequests)

\* the cancellation test without `or not self.running`
Cancelled_StopOnly(stop, run) == stop

\* if self.stop_event.is_set() or not self.running: break
Cancelled(stop, run) == stop \/ ~run

\* one fragment received and parsed: the body of `for chunk in stream`
StreamFragment ==
    /\ Alive /\ pc = "stream"
    /\ stream # << >>
    /\ ~Cancelled(stop_event, running)
    /\ LET r == ParserStep([ current_thought_chunk |-> current_thought_chunk,
                             capture_say_message   |-> capture_say_message,
                             say_message_buffer    |-> say_message_buffer ],
                           Head(stream)) IN
         /\ current_thought_chunk' = r.current_thought_chunk
         /\ capture_say_message' = r.capture_say_message
         /\ say_message_buffer' = r.say_message_buffer
         /\ events' = events \o r.emitted
         /\ full_context' = full_context \o r.appended
    /\ stream' = Tail(stream)
    /\ UNCHANGED << running, stop_event, context_buffer, pending_user_input,
                    session_chat_log, pc, cut_length, timer_pc, ui_pc,
                    memory_files, gen_text, last_end, enq_log, n_sends,
                    n_ticks, n_requests >>

\* "Stream END Handling": pop, safety net, monologue; how says why the
\* for loop was left
EndOfStream(how) ==
    LET popped == Pop(full_context)
        final_msg == SafetyNet(capture_say_message, say_message_buffer)
        said == IF final_msg # << >>
                THEN << SpokenIncompleteMsg(final_msg) >> ELSE << >>
        shown == IF final_msg # << >>
                 THEN << IncompleteEvent(final_msg) >> ELSE << >>
    IN  /\ full_context' = popped \o said
                             \o << MonologueMsg(current_thought_chunk) >>
        /\ context_buffer' = context_buffer \o current_thought_chunk
        /\ events' = events \o shown \o << ThoughtEvent(<<NL>>) >>
        /\ last_end' = how
        /\ pc' = "top"
        /\ UNCHANGED << running, stop_event, pending_user_input,
                        session_chat_log, loop_locals, timer_pc, ui_pc,
                        memory_files, gen_text, enq_log, n_sends, n_ticks,
                        n_requests >>

\* the stream is exhausted: the for loop ends
StreamEnd ==
    /\ Alive /\ pc = "stream"
    /\ stream = << >>
    /\ EndOfStream("normal")

\* a fragment arrives with the stop event set or running false: break
StreamBreak ==
    /\ Alive /\ pc = "stream"
    /\ stream # << >>
    /\ Cancelled(stop_event, running)
    /\ EndOfStream("break")

\* the stream raises while the for loop waits for the next fragment
StreamError ==
    /\ Alive /\ pc = "stream"
    /\ pc' = "except"
    /\ UNCHANGED << running, stop_event, session, loop_locals, timer_pc,
                    ui_pc, memory_files, observers >>

\* the exception of a request left uncaught: the thread ends
LoopExcept_Fatal ==
    /\ Alive /\ pc = "except"
    /\ pc' = "exit"
    /\ UNCHANGED << running, stop_event, session, loop_locals, timer_pc,
                    ui_pc, memory_files, observers >>

\* except Exception: error notice, pop, time.sleep(5), continue
LoopExcept ==
    /\ Alive /\ pc = "except"
    /\ events' = Append(events, ErrorEvent)
    /\ full_context' = IF full_context # << >> THEN Pop(full_context)
                       ELSE full_context
    /\ last_end' = "error"
    /\ pc' = "top"
    /\ UNCHANGED << running, stop_event, context_buffer, pending_user_input,
                    session_chat_log, loop_locals, timer_pc, ui_pc,
                    memory_files, gen_text, enq_log, n_sends, n_ticks,
                    n_requests >>

---------------------------------------------------------------------------
(* The whole program *)

Next ==
    \/ Pause \/ StartNewSession \/ StartNewSessionFails \/ Resume
    \/ SendMessage \/ OnClose \/ SaveMemory
    \/ TimerWhile \/ TimerWake \/ TimerInject
    \/ LoopTop \/ DrainInput \/ DrainDone
    \/ PruneSkip \/ PruneStart \/ PruneFinish
    \/ IssueRequest \/ IssueRequestFails
    \/ StreamFragment \/ StreamEnd \/ StreamBreak \/ StreamError
    \/ LoopExcept

Spec == Init /\ [][Next]_vars

---------------------------------------------------------------------------
(* The stream parser alone: one request of a running session, issued right *)
(* after the kickoff notice was drained, delivering any text of at most    *)
(* MaxLen characters in any fragmentation.                                 *)

InitParser ==
    /\ running = TRUE
    /\ stop_event = FALSE
    /\ context_buffer = initial_kickoff
    /\ pending_user_input = << >>
    /\ full_context = << SystemMsg, InputMsg(initial_kickoff), TriggerMsg >>
    /\ session_chat_log = <<"[User said]">> \o initial_kickoff
    /\ pc = "stream"
    /\ \E t \in TextsUpTo(MaxLen) :
         /\ gen_text = t
         /\ stream \in Fragmentations(t)
    /\ current_thought_chunk = << >>
    /\ capture_say_message = FALSE
    /\ say_message_buffer = << >>
    /\ cut_length = 0
    /\ timer_pc = "while"
    /\ ui_pc = "idle"
    /\ memory_files = 0
    /\ events = << >>
    /\ last_end = "none"
    /\ enq_log = initial_kickoff
    /\ n_sends = 0
    /\ n_ticks = 0
    /\ n_requests = 1

NextParser == StreamFragment \/ StreamEnd

SpecParser == InitParser /\ [][NextParser]_vars

---------------------------------------------------------------------------
(* prune_context alone: a running session whose first request delivered a *)
(* thought of up to MaxBuf - 1 characters in one fragment, at the PHASE 2  *)
(* call of the next iteration.                                             *)

\* thoughts of n characters with at most two blanks
SparseTexts(n) ==
    { [i \in 1..n |-> IF i \in b THEN SP ELSE "a"] :
        b \in { c \in SUBSET (1..n) : Cardinality(c) <= 2 } }

InitPrune ==
    /\ running = TRUE
    /\ stop_event = FALSE
    /\ \E n \in 1..(MaxBuf - 1) : \E t \in SparseTexts(n) :
         /\ gen_text = t
         /\ context_buffer = initial_kickoff \o t
         /\ full_context = << SystemMsg, InputMsg(initial_kickoff),
                              MonologueMsg(t) >>
         /\ events = (IF Strip(t) # << >> THEN << ThoughtEvent(t) >>
                      ELSE << >>) \o << ThoughtEvent(<<NL>>) >>
         /\ current_thought_chunk = t
    /\ pending_user_input = << >>
    /\ session_chat_log = <<"[User said]">> \o initial_kickoff
    /\ pc = "prune"
    /\ stream = << >>
    /\ capture_say_message = FALSE
    /\ say_message_buffer = << >>
    /\ cut_length = 0
    /\ timer_pc = "while"
    /\ ui_pc = "idle"
    /\ memory_files = 0
    /\ last_end = "normal"
    /\ enq_log = initial_kickoff
    /\ n_sends = 0
    /\ n_ticks = 0
    /\ n_requests = 1

NextPrune == PruneSkip \/ PruneStart \/ PruneFinish

SpecPrune == InitPrune /\ [][NextPrune]_vars

---------------------------------------------------------------------------
(* Vocabulary of the properties *)

QuotePositions(t) == { i \in 1..Len(t) : t[i] = Q }
BeforeQuote(t) == SplitFirstQuote(t)[1]
AfterQuote(t) == SplitFirstQuote(t)[2]
WithoutQuotes(t) == SelectSeq(t, LAMBDA c : c # Q)

IsThought(e) == e.kind = "thought"
IsSpeech(e) == e.kind = "speech"
IsIncomplete(e) == e.kind = "incomplete"
IsSaid(e) == e.kind \in {"speech", "incomplete"}

TextsOf(es) == [ i \in 1..Len(es) |-> es[i].text ]
ThoughtText(es) == Concat(TextsOf(SelectSeq(es, IsThought)))

\* A Q S Q: thought A, then one quoted span that ends the text
WellFormedSingleSpan(t) ==
    /\ Cardinality(QuotePositions(t)) = 2
    /\ t[Len(t)] = Q
    /\ LET S == Pop(AfterQuote(t)) IN S # << >> /\ Strip(S) = S

\* A Q S Q B: thought A, one quoted span, non-blank thought B
SpanThenThought(t) ==
    /\ Cardinality(QuotePositions(t)) = 2
    /\ LET S == BeforeQuote(AfterQuote(t))
           B == AfterQuote(AfterQuote(t))
       IN  S # << >> /\ Strip(S) = S /\ Strip(B) # << >>

\* A Q S: an opening quote, non-blank text after it, no closing quote
UnclosedQuote(t) ==
    /\ Cardinality(QuotePositions(t)) = 1
    /\ Strip(AfterQuote(t)) # << >>

---------------------------------------------------------------------------
(* C1: for a text A "S" delivered in any fragmentation, the thought events *)
(* before the speech event, concatenated, followed by the text of the one  *)
(* speech event, are the text without its two quotes.                      *)

C1_SingleSpanRoundTrip ==
    (last_end = "normal" /\ WellFormedSingleSpan(gen_text)) =>
        \E i \in 1..Len(events) :
            /\ IsSpeech(events[i])
            /\ \A j \in 1..Len(events) : IsSaid(events[j]) => j = i
            /\ ThoughtText(SubSeq(events, 1, i-1)) \o events[i].text
                   = WithoutQuotes(gen_text)

(* C2: for a text A "S" B delivered in any fragmentation the request ends  *)
(* with thought A, exactly one speech event S and thought B (followed at   *)
(* most by the final newline), and no incomplete speech event.             *)

C2_ReturnsToThought ==
    (last_end = "normal" /\ SpanThenThought(gen_text)) =>
        /\ SelectSeq(events, IsIncomplete) = << >>
        /\ \E i \in 1..Len(events) :
            /\ events[i] = SpeechEvent(BeforeQuote(AfterQuote(gen_text)))
            /\ \A j \in 1..Len(events) : IsSaid(events[j]) => j = i
            /\ ThoughtText(SubSeq(events, 1, i-1)) = BeforeQuote(gen_text)
            /\ ThoughtText(SubSeq(events, i+1, Len(events)))
                   \in { AfterQuote(AfterQuote(gen_text)),
                         AfterQuote(AfterQuote(gen_text)) \o <<NL>> }

(* C3: for a text with an opening quote, non-blank text after it and no    *)
(* closing quote, no complete speech event is ever emitted, no incomplete  *)
(* one before the stream ends, and at the normal end exactly one, holding  *)
(* all the text after the quote up to surrounding blanks and followed only *)
(* by the final newline; all the text before the quote was emitted as one  *)
(* thought event.                                                          *)

C3_UnclosedQuoteIncomplete ==
    UnclosedQuote(gen_text) =>
        /\ SelectSeq(events, IsSpeech) = << >>
        /\ pc = "stream" => SelectSeq(events, IsIncomplete) = << >>
        /\ last_end = "normal" =>
            /\ SelectSeq(events, IsIncomplete)
                   = << IncompleteEvent(Strip(AfterQuote(gen_text))) >>
            /\ Len(events) >= 2
            /\ IsIncomplete(events[Len(events) - 1])
            /\ \E i \in 1..Len(events) :
                   events[i] = ThoughtEvent(BeforeQuote(gen_text))

C3_Witness ==
    /\ last_end = "normal"
    /\ UnclosedQuote(gen_text)
    /\ BeforeQuote(gen_text) # << >>
    /\ Strip(AfterQuote(gen_text)) # AfterQuote(gen_text)
    /\ Len(events) >= 4
    /\ SelectSeq(events, IsIncomplete) # << >>

(* C4: the speech events (texts and complete/incomplete tags) and the      *)
(* concatenated thought text of a request do not depend on how the text    *)
(* was split into fragments: they are those of the text as one fragment.   *)

C4_FragmentIndependent ==
    last_end = "normal" =>
        LET whole == ParseAll(StartParser,
                              IF gen_text = << >> THEN << >> ELSE << gen_text >>)
        IN  /\ SelectSeq(events, IsSaid) = SelectSeq(whole, IsSaid)
            /\ ThoughtText(events) = ThoughtText(whole)

---------------------------------------------------------------------------
(* C5: a request of which a fragment was consumed is consumed to its last  *)
(* fragment unless the stop event is set or the stream fails: a pause      *)
(* (running = FALSE) during the stream never cuts it short.                *)

C6_NoIterationWhilePaused ==
    [][ ~running => ~( \/ DrainInput \/ PruneStart \/ PruneFinish
                       \/ IssueRequest \/ IssueRequestFails ) ]_vars

(* C7: whenever a streaming request is issued, pending_user_input is       *)
(* empty: every notice enqueued before has been folded into full_context.  *)

C7_QueueEmptyAtIssue ==
    [][ (pc = "issue" /\ pc' # "issue") => pending_user_input = << >> ]_vars

(* C8: the notices folded into full_context, followed by those still       *)
(* queued, are a suffix of the notices in the order they were enqueued;    *)
(* each input message holds exactly one whole notice and no notice is      *)
(* folded twice.                                                           *)

IsInput(m) == m.kind = "input"
Drained ==
    LET inputs == SelectSeq(full_context, IsInput)
    IN  Concat([ i \in 1..Len(inputs) |-> inputs[i].content ])
IsSuffix(x, y) ==
    Len(x) <= Len(y) /\ SubSeq(y, Len(y) - Len(x) + 1, Len(y)) = x

C8_FifoDrain ==
    LET d == Drained IN
    /\ \A i \in 1..Len(full_context) :
           IsInput(full_context[i]) => Len(full_context[i].content) = 1
    /\ IsSuffix(d \o pending_user_input, enq_log)
    /\ \A i, j \in 1..Len(d) : d[i] = d[j] => i = j

C8_Witness ==
    LET d == Drained IN
    /\ Len(d) >= 3
    /\ \E i, j \in 1..Len(d) : d[i] = "u1" /\ d[j] = "t1"

(* C9: at the start of every loop iteration full_context holds no steering *)
(* instruction.                                                            *)

C9_NoTriggerAtIterationStart ==
    pc = "top" =>
        \A i \in 1..Len(full_context) : full_context[i].kind # "trigger"

(* C10: prune_context on a buffer of length L > MAX_CONTEXT_CHARS leaves   *)
(* one archive note (with the summary or the placeholder) followed by the  *)
(* old buffer without its first floor(L/5) characters, so the length       *)
(* decreases when the note is shorter than floor(L/5); on a buffer of      *)
(* length L <= MAX_CONTEXT_CHARS it changes nothing.                       *)

ArchiveNotes(chunk) ==
    { <<"[NOTE:">> \o x \o <<"]">> :
        x \in Summaries \cup { <<"[FAILED:">> \o Take(chunk, ExcerptLen)
                                 \o <<"...]">> } }

C10_PruneArithmetic ==
    [][ LET L == Len(context_buffer)
            cut == L \div 5
        IN  /\ (pc = "prune" /\ L <= MAX_CONTEXT_CHARS) =>
                   (context_buffer' = context_buffer /\ pc' \in {"prune", "issue"})
            /\ (pc = "prune" /\ L > MAX_CONTEXT_CHARS) =>
                   (context_buffer' = context_buffer /\ pc' \in {"prune", "summary"})
            /\ (pc = "summary" /\ pc' # "summary") =>
                   /\ L > MAX_CONTEXT_CHARS
                   /\ \E note \in ArchiveNotes(SubSeq(context_buffer, 1, cut)) :
                        /\ context_buffer' =
                               note \o SubSeq(context_buffer, cut + 1, L)
                        /\ Len(context_buffer') = Len(note) + (L - cut)
                        /\ Len(note) < cut => Len(context_buffer') < L ]_vars

C10_Witness ==
    /\ pc = "issue"
    /\ Len(context_buffer) > 0
    /\ context_buffer[1] = "[NOTE:"
    /\ cut_length = 4
    /\ Len(context_buffer) < Len(gen_text) + 1

----------------------------------------------------------------------------
(* C11: in every iteration of consciousness_loop the size test of
   prune_context runs after the drain has emptied the queue and before the
   request is issued; when the buffer exceeds MAX_CONTEXT_CHARS at that
   point exactly one prune is done before the request (the loop goes from
   the test to the summary and from the summary straight to the request,
   the buffer keeping its last L - floor(L/5) characters behind one archive
   note), and when it does not, the buffer reaches the request untouched *)

C11_PruneCadence ==
    [][ LET L == Len(context_buffer)
        IN  /\ (pc' = "prune" /\ pc # "prune") =>
                   (pc = "drain" /\ pending_user_input = << >>)
            /\ (pc = "prune" /\ pc' # "prune") =>
                   pc' = (IF L > MAX_CONTEXT_CHARS THEN "summary" ELSE "issue")
            /\ (pc = "summary" /\ pc' # "summary") => pc' = "issue"
            /\ (pc' = "issue" /\ pc # "issue") => pc \in {"prune", "summary"}
            /\ (n_requests' # n_requests) =>
                   (pc = "issue" /\ pc' \in {"stream", "except"})
            /\ (pc \in {"prune", "issue"}) => context_buffer' = context_buffer
            /\ (pc = "summary" /\ context_buffer' # context_buffer) =>
                   /\ pc' = "issue"
                   /\ context_buffer'[1] = "[NOTE:"
                   /\ IsSuffix(Drop(context_buffer, L \div 5), context_buffer')
                   /\ Len(context_buffer') > L - (L \div 5)
      ]_vars

\* a request in flight whose iteration pruned the buffer first
C11_Witness ==
    /\ pc = "stream"
    /\ n_requests = 1
    /\ stream # << >>
    /\ context_buffer # << >>
    /\ context_buffer[1] = "[NOTE:"

----------------------------------------------------------------------------
(* A session left running on its own: started once, never paused, no user
   input, no timer notice, every request answered *)

MaxIterations == 6

IssueLong == Issue(MaxIterations)

NextLong ==
    \/ StartNewSession
    \/ LoopTop
    \/ DrainInput
    \/ DrainDone
    \/ PruneSkip
    \/ PruneStart
    \/ PruneFinish
    \/ IssueLong
    \/ StreamFragment
    \/ StreamEnd

SpecLong == Init /\ [][NextLong]_vars

----------------------------------------------------------------------------
(* C12: the messages sent with a request stay bounded: the characters of
   full_context never exceed MAX_CONTEXT_CHARS plus what one iteration can
   add (the system prompt, the inputs of one drain, one speech and one
   monologue); the trigger messages are left out of the count on both
   sides *)

\* the characters of the longest generation
MaxStreamChars ==
    CHOOSE n \in 0..MaxLen :
        /\ \A fs \in Streams : Len(Concat(fs)) <= n
        /\ \E fs \in Streams : Len(Concat(fs)) = n

IsTrigger(m) == m.kind = "trigger"

ContextChars ==
    LET kept == SelectSeq(full_context, LAMBDA m : ~IsTrigger(m))
    IN  Len(Concat([ i \in 1..Len(kept) |-> kept[i].content ]))

IterationAdditions ==
    Len(SystemMsg.content) + (MaxNotices + 1) + 2 * MaxStreamChars

C12_ContextBounded ==
    ContextChars <= MAX_CONTEXT_CHARS + IterationAdditions

----------------------------------------------------------------------------
(* C13: an execution that reaches shutdown has written exactly one memory
   record, whether the loop was paused, idle or in the middle of a stream
   when the window was closed, and no record is written before shutdown *)

C13_MemoryOnce ==
    /\ memory_files = (IF ui_pc = "closed" THEN 1 ELSE 0)
    /\ (ui_pc # "idle") => stop_event

\* the window closed in the middle of a stream
C13_Witness ==
    /\ ui_pc = "closed"
    /\ memory_files = 1
    /\ pc = "stream"
    /\ stream # << >>
    /\ Concat(stream) # gen_text

----------------------------------------------------------------------------
(* C14: once a request has finished, every speech it delivered to the
   observer, complete or incomplete, is held in full_context as an
   assistant message with that text *)

IsSaidMsg(m) == m.kind \in {"said", "said_incomplete"}

C14_SpeechRecorded ==
    (pc = "top" /\ last_end \in {"normal", "break"}) =>
        \A i \in 1..Len(events) :
            IsSaid(events[i]) =>
                \E j \in 1..Len(full_context) :
                    /\ IsSaidMsg(full_context[j])
                    /\ full_context[j].role = "assistant"
                    /\ full_context[j].content = events[i].text

----------------------------------------------------------------------------
(* C15: when a request completes, the text appended to context_buffer and
   the content of the one monologue message appended to full_context are
   both the thought text of the generation, that is everything generated
   outside the quoted spans, the thought before a quoted span included *)

RECURSIVE Outside(_, _)
Outside(t, quoted) ==
    IF t = << >> THEN << >>
    ELSE IF Head(t) = Q THEN Outside(Tail(t), ~quoted)
    ELSE (IF quoted THEN << >> ELSE << Head(t) >>)
             \o Outside(Tail(t), quoted)

OutsideQuotes(t) == Outside(t, FALSE)

IsMonologue(m) == m.kind = "monologue"

C15_MonologueIsThought ==
    (pc = "top" /\ last_end = "normal") =>
        LET said == SelectSeq(full_context, IsMonologue)
        IN  /\ Len(said) = 1
            /\ said[1].role = "assistant"
            /\ said[1].content = OutsideQuotes(gen_text)
            /\ context_buffer = initial_kickoff \o OutsideQuotes(gen_text)

----------------------------------------------------------------------------
(* C16: a request that ends while the parser is capturing a speech with
   text accumulated, because the stream was cancelled or because it raised
   in the middle, still delivers that text as an incomplete speech and
   records it in full_context *)

HasText(t) == \E i \in 1..Len(t) : t[i] \notin {SP, NL, Q}

C16_CapturedSpeechSurvives ==
    ( /\ pc = "top"
      /\ last_end \in {"break", "error"}
      /\ capture_say_message
      /\ HasText(say_message_buffer) ) =>
        /\ \E i \in 1..Len(events) :
               /\ IsIncomplete(events[i])
               /\ HasText(events[i].text)
        /\ \E j \in 1..Len(full_context) :
               /\ full_context[j].kind = "said_incomplete"
               /\ HasText(full_context[j].content)

----------------------------------------------------------------------------
(* The loop thread under a fair scheduler: a session that is started,
   paused, resumed and closed, whose requests and summaries may fail; the
   thread that is able to take a step eventually takes one *)

IssueLive == Issue(MaxRequests + 1)

IssueFailsLive == IssueFails(MaxRequests + 1)

LoopStep ==
    \/ LoopTop
    \/ DrainInput
    \/ DrainDone
    \/ PruneSkip
    \/ PruneStart
    \/ PruneFinish
    \/ IssueLive
    \/ IssueFailsLive
    \/ StreamFragment
    \/ StreamEnd
    \/ StreamBreak
    \/ StreamError
    \/ LoopExcept

NextLive ==
    \/ StartNewSession
    \/ Pause
    \/ Resume
    \/ OnClose
    \/ SaveMemory
    \/ LoopStep

SpecLive == Init /\ [][NextLive]_vars /\ WF_vars(LoopStep)

----------------------------------------------------------------------------
(* C17: a failed request is never fatal: the handler emits exactly one error
   event and hands control back to the top of the loop; a prune whose
   summary failed completes all the same unless the program is closed
   meanwhile; and after a failure, unless the session is paused or stopped,
   the loop eventually issues the next request *)

IsError(e) == e.kind = "error"

C17_FailuresNotFatal ==
    /\ [][ (pc = "except" /\ pc' # "except") =>
               /\ pc' = "top"
               /\ events' = Append(events, ErrorEvent)
               /\ Len(SelectSeq(events', IsError)) = 1 ]_vars
    /\ (pc = "summary") ~> (pc = "issue" \/ stop_event)
    /\ \A k \in 1..MaxRequests :
           (pc = "except" /\ n_requests = k)
               ~> (n_requests > k \/ ~running \/ stop_event)

\* a failed request handled, the loop back at the point of the next request
C17_Witness ==
    /\ pc = "issue"
    /\ last_end = "error"
    /\ running
    /\ ~stop_event
    /\ n_requests = 1

----------------------------------------------------------------------------
(* C18: from the start of a session on, full_context is never empty, its
   first element is the system message, and no later element is one: no
   cleanup pop removes it and resuming does not create it again; before the
   session starts full_context is empty *)

\* start_new_session has queued its kickoff
Started == \E i \in 1..Len(enq_log) : << enq_log[i] >> = initial_kickoff

C18_SystemMessageFirst ==
    IF ~Started
    THEN full_context = << >>
    ELSE /\ full_context # << >>
         /\ full_context[1] = SystemMsg
         /\ \A i \in 2..Len(full_context) : full_context[i].kind # "prompt"

\* paused after a failed request whose cleanup popped the trigger
C18_Witness ==
    /\ ~running
    /\ last_end = "error"
    /\ n_requests = 2
    /\ full_context = << SystemMsg, InputMsg(initial_kickoff) >>

----------------------------------------------------------------------------
(* C19: full_context, context_buffer and session_chat_log are touched by
   the loop thread alone: the steps of the UI thread that write one of them
   (start_new_session, and save_memory on shutdown, which also reads
   context_buffer and session_chat_log) are taken only while the loop
   thread is outside an iteration, at the top of its while loop or ended *)

C19_LoopOwnsSession ==
    [][ (StartNewSession \/ StartNewSessionFails \/ SaveMemory)
            => pc \in {"top", "exit"} ]_vars

----------------------------------------------------------------------------
(* C20: under every interleaving of the timer thread with pause and
   resume, a time notice is appended to pending_user_input only in a state
   where running is true *)

C20_NoInjectionWhilePaused ==
    [][ (n_ticks' = n_ticks + 1) =>
            /\ running
            /\ Len(pending_user_input') = Len(pending_user_input) + 1 ]_vars

----------------------------------------------------------------------------
(* C21: a start_new_session that fails to load the prompt template changes
   nothing: running, full_context, pending_user_input (the inputs sent
   before START included), context_buffer and session_chat_log keep the
   values they had before the attempt, and the session stays not running *)

C21_FailedStartChangesNothing ==
    [][ StartNewSessionFails =>
            /\ ~running'
            /\ UNCHANGED << running, full_context, pending_user_input,
                            context_buffer, session_chat_log >> ]_vars

====
